---------------------------- MODULE Spec2Model ----------------------------
(***************************************************************************)
(* FlightScope (src/main.py): the refresh cycle FlightScopeApp.            *)
(* fetchFlightData, its normalization of the OpenSky state vectors with    *)
(* pandas, formatTimestamp, the table model and the Qt event loop that     *)
(* drives it (refresh timer and "Refresh Data" button).                    *)
(*                                                                         *)
(* Text is a tuple of one-character strings, so that the shape of a        *)
(* formatted timestamp can be inspected position by position.              *)
(***************************************************************************)
EXTENDS Integers, Sequences, FiniteSets, TLC

VARIABLES
    active,         \* number of fetchFlightData invocations on the call stack
    timerActive,    \* QTimer.isActive() of self.timer
    timeoutPending, \* a timeout of self.timer waits in the event queue
    clicksPending,  \* clicks of refreshButton waiting in the event queue
    countLabel,     \* text of self.countLabel
    updateLabel,    \* text of self.updateLabel
    tableModel,     \* the DataFrame behind the model set on self.tableView
    csvFile,        \* contents of FlightScope.csv
    lastResp,       \* history: the response the last finished cycle received (its shape)
    lastFrame,      \* history: the snapshot the last finished cycle fetched
    lastErr,        \* history: where the last finished cycle raised ("none" if nowhere)
    tz,             \* environment: the local zone's UTC offset in seconds
    arg,            \* harness: input of a pure function
    res             \* harness: its result

vars == << active, timerActive, timeoutPending, clicksPending, countLabel,
           updateLabel, tableModel, csvFile, lastResp, lastFrame, lastErr, tz, arg, res >>

machineVars == << active, timerActive, timeoutPending, clicksPending, countLabel,
                  updateLabel, tableModel, csvFile, lastResp, lastFrame, lastErr >>

-----------------------------------------------------------------------------
(* Bounds *)

\* rows in one payload of the refresh machine
MaxRows == 2
\* rows in one payload given to the normalizer alone
MaxPayloadRows == 2
\* clicks that can wait in the event queue
MaxPendingClicks == 1

-----------------------------------------------------------------------------
(* JSON values as response.json() decodes them *)

JNull == [t |-> "null", n |-> 0, s |-> << >>]
JNaN == [t |-> "nan", n |-> 0, s |-> << >>]
JInf == [t |-> "inf", n |-> 0, s |-> << >>]
JBool(b) == [t |-> "bool", n |-> IF b THEN 1 ELSE 0, s |-> << >>]
JNum(n) == [t |-> "num", n |-> n, s |-> << >>]
JStr(s) == [t |-> "str", n |-> 0, s |-> s]

\* the sentinel 'No Data'
NoData == JStr(<< "N", "o", " ", "D", "a", "t", "a" >>)
Yes == JStr(<< "Y", "e", "s" >>)
No == JStr(<< "N", "o" >>)

Digits == << "0", "1", "2", "3", "4", "5", "6", "7", "8", "9" >>
DigitSet == { Digits[i] : i \in 1..10 }

-----------------------------------------------------------------------------
(* datetime.fromtimestamp(...).strftime('%Y-%m-%d %H:%M:%S') *)

\* a field of strftime, zero padded to two digits (%m %d %H %M %S)
Pad2(n) == << Digits[(n \div 10) + 1], Digits[(n % 10) + 1] >>

\* %Y for the years 1000..9999
Pad4(n) ==
    << Digits[(n \div 1000) + 1], Digits[((n \div 100) % 10) + 1],
       Digits[((n \div 10) % 10) + 1], Digits[(n % 10) + 1] >>

\* the proleptic Gregorian date of a day number counted from 1970-01-01
CivilFromDays(days) ==
    LET z == days + 719468
        era == z \div 146097
        doe == z - era * 146097
        yoe == (doe - (doe \div 1460) + (doe \div 36524) - (doe \div 146096)) \div 365
        doy == doe - (365 * yoe + (yoe \div 4) - (yoe \div 100))
        mp == (5 * doy + 2) \div 153
        d == doy - ((153 * mp + 2) \div 5) + 1
        m == IF mp < 10 THEN mp + 3 ELSE mp - 9
        y == yoe + era * 400 + (IF m <= 2 THEN 1 ELSE 0)
    IN  [year |-> y, month |-> m, day |-> d]

IsDigitText(s) == Len(s) > 0 /\ \A i \in 1..Len(s) : s[i] \in DigitSet

DigitValue(c) == CHOOSE d \in 0..9 : Digits[d + 1] = c

RECURSIVE TextToInt(_)
TextToInt(s) ==
    IF Len(s) = 0 THEN 0
    ELSE TextToInt(SubSeq(s, 1, Len(s) - 1)) * 10 + DigitValue(s[Len(s)])

\* pd.isna of a scalar
IsNa(x) == x.t \in {"null", "nan"}

\* float(x): a number, an infinity, a NaN, or an exception (TypeError, ValueError).
\* Of the numeric literals float() reads, the model has the unsigned integers.
ToFloat(x) ==
    CASE x.t = "num" -> [raised |-> FALSE, value |-> x]
      [] x.t = "bool" -> [raised |-> FALSE, value |-> JNum(x.n)]
      [] x.t \in {"inf", "nan"} -> [raised |-> FALSE, value |-> x]
      [] x.t = "str" /\ IsDigitText(x.s) -> [raised |-> FALSE, value |-> JNum(TextToInt(x.s))]
      [] OTHER -> [raised |-> TRUE, value |-> JNull]

\* pd.to_numeric(..., errors='coerce') on one element of the column
ToNumeric(x) ==
    LET f == ToFloat(x) IN IF f.raised THEN JNaN ELSE f.value

Raised == [raised |-> TRUE, value |-> JNull]
Returned(v) == [raised |-> FALSE, value |-> v]

\* datetime.fromtimestamp(x): the local broken-down time, or an exception
\* (OverflowError for an infinity, ValueError for a NaN)
FromTimestamp(x, offset) ==
    IF x.t \in {"inf", "nan"}
    THEN [raised |-> TRUE, year |-> 0, month |-> 0, day |-> 0,
          hour |-> 0, minute |-> 0, second |-> 0]
    ELSE LET local == x.n + offset
             date == CivilFromDays(local \div 86400)
             secs == local % 86400
         IN  [raised |-> FALSE, year |-> date.year, month |-> date.month,
              day |-> date.day, hour |-> secs \div 3600,
              minute |-> (secs % 3600) \div 60, second |-> secs % 60]

Strftime(dt) ==
    JStr(Pad4(dt.year) \o << "-" >> \o Pad2(dt.month) \o << "-" >> \o Pad2(dt.day)
         \o << " " >> \o Pad2(dt.hour) \o << ":" >> \o Pad2(dt.minute)
         \o << ":" >> \o Pad2(dt.second))

\* the body of formatTimestamp's try block
formatTimestampTry(timestamp, offset) ==
    IF IsNa(timestamp) \/ timestamp = NoData
    THEN Returned(NoData)
    ELSE LET f == ToFloat(timestamp)
             dt == FromTimestamp(f.value, offset)
         IN  IF f.raised \/ dt.raised THEN Raised ELSE Returned(Strftime(dt))

\* formatTimestamp with the except clause missing: the failure escapes
formatTimestampUncaught(timestamp, offset) == formatTimestampTry(timestamp, offset)

\* FlightScopeApp.formatTimestamp: [raised, value]; raised is what escapes it
formatTimestamp(timestamp, offset) ==
    LET r == formatTimestampTry(timestamp, offset)
    IN  IF r.raised THEN Returned(NoData) ELSE r

-----------------------------------------------------------------------------
(* The normalization of fetchFlightData (pandas) *)

NumColumns == 17

columns ==
    << "ICAO24", "Callsign", "Origin", "TimePos", "LastContact", "Long", "Lat", "Alt",
       "OnGround", "Speed", "Heading", "VertRate", "Sensors", "GeoAlt", "Squawk",
       "SPI", "Source" >>

ColumnIndex(name) == CHOOSE i \in 1..Len(columns) : columns[i] = name

MaxOf(S) == CHOOSE m \in S : \A x \in S : x <= m
MinOf(S) == CHOOSE m \in S : \A x \in S : m <= x

\* a sequence given by a rule, as the tuple of its elements
Seq1(f) == SubSeq(f, 1, Len(f))

\* pd.DataFrame(list of lists): as wide as the longest row, shorter rows padded
\* with None; the columns are numbered
PadRow(r, width) == Seq1([j \in 1..width |-> IF j <= Len(r) THEN r[j] ELSE JNull])

DataFrame(states) ==
    LET width == IF Len(states) = 0 THEN 0
                 ELSE MaxOf({ Len(states[i]) : i \in 1..Len(states) })
    IN  [columns |-> Seq1([j \in 1..width |-> ToString(j - 1)]),
         rows |-> Seq1([i \in 1..Len(states) |-> PadRow(states[i], width)])]

\* df.iloc[:, 0:n]
FirstColumns(df, n) ==
    LET w == MinOf({n, Len(df.columns)})
    IN  [columns |-> SubSeq(df.columns, 1, w),
         rows |-> Seq1([i \in 1..Len(df.rows) |-> SubSeq(df.rows[i], 1, w)])]

\* df.fillna('No Data')
FillNaCell(x) == IF IsNa(x) THEN NoData ELSE x

FillNaRow(r) == Seq1([j \in 1..Len(r) |-> FillNaCell(r[j])])

FillNa(df) ==
    [columns |-> df.columns,
     rows |-> Seq1([i \in 1..Len(df.rows) |-> FillNaRow(df.rows[i])])]

\* bool(x) of a cell
Truthy(x) ==
    CASE x.t = "bool" -> x.n = 1
      [] x.t = "num" -> x.n # 0
      [] x.t = "str" -> Len(x.s) > 0
      [] x.t = "null" -> FALSE
      [] OTHER -> TRUE

\* lambda x: 'Yes' if x else 'No'
OnGroundText(x) == IF Truthy(x) THEN Yes ELSE No

\* lines 244-247 on one element: to_numeric, then formatTimestamp
TimestampCell(x, offset) == formatTimestamp(ToNumeric(x), offset)

TimestampColumns == { ColumnIndex("TimePos"), ColumnIndex("LastContact") }
OnGroundColumn == ColumnIndex("OnGround")

\* lines 242-252 on one row of the filled frame
FormatRow(r, offset) ==
    Seq1([j \in 1..Len(r) |->
            IF j \in TimestampColumns THEN TimestampCell(r[j], offset).value
            ELSE IF j = OnGroundColumn THEN OnGroundText(r[j])
            ELSE r[j]])

NoFrame == [columns |-> << >>, rows |-> << >>]

\* lines 234-252: [raised, frame]; raised is an exception leaving the block
Normalize(states, offset) ==
    LET raw == FirstColumns(DataFrame(states), NumColumns)
    IN  IF Len(raw.columns) # Len(columns)
        THEN [raised |-> TRUE, frame |-> NoFrame]      \* ValueError: length mismatch
        ELSE LET filled == FillNa(raw)
             IN  IF \E i \in 1..Len(filled.rows) : \E j \in TimestampColumns :
                        TimestampCell(filled.rows[i][j], offset).raised
                 THEN [raised |-> TRUE, frame |-> NoFrame]
                 ELSE [raised |-> FALSE,
                       frame |-> [columns |-> columns,
                                  rows |-> Seq1([i \in 1..Len(filled.rows) |->
                                                   FormatRow(filled.rows[i], offset)])]]

-----------------------------------------------------------------------------
(* Inputs: state vectors as the provider sends them *)

Text(c) == JStr(<< c >>)

\* one state vector with its 17 documented fields and one more (the category)
StateVector(icao24, timePos, onGround) ==
    << Text(icao24), JStr(<< "U", "A", "L", "1", " " >>), JStr(<< "U", "S" >>),
       timePos, JNum(1690000005), JNum(-75), JNum(45), JNull,
       onGround, JNum(230), JNum(180), JNum(0),
       JNull, JNull, JStr(<< "1", "2", "0", "0" >>), JBool(FALSE), JNum(0),
       JNum(1) >>

\* rows one field short of the schema, exact, and one field longer
RowLengths == { NumColumns - 1, NumColumns, NumColumns + 1 }

Row(icao24, timePos, onGround, len) ==
    SubSeq(StateVector(icao24, timePos, onGround), 1, len)

RECURSIVE SeqsUpTo(_, _)
SeqsUpTo(S, n) ==
    IF n = 0 THEN { << >> }
    ELSE LET shorter == SeqsUpTo(S, n - 1)
         IN  shorter \cup { Append(p, r) : p \in { q \in shorter : Len(q) = n - 1 }, r \in S }

\* the rows the refresh machine receives: one longer than the schema, one shorter
LongRow == Row("a", JNum(1690000000), JBool(FALSE), NumColumns + 1)
ShortRow == Row("c", JNull, JNull, NumColumns - 1)

MachineRows == { LongRow, ShortRow }

MachinePayloads == SeqsUpTo(MachineRows, MaxRows)

TransportError == [raised |-> TRUE, status |-> 0, json |-> "invalid", states |-> << >>]

Http(status, json, states) ==
    [raised |-> FALSE, status |-> status, json |-> json, states |-> states]

\* what requests.get can do: raise, or return a status with a body that is not
\* JSON ("invalid"), an object without 'states' ("noKey"), with a null 'states'
\* ("null") or with a list of state vectors ("list")
Responses ==
    { TransportError }
    \cup { Http(200, j, << >>) : j \in {"invalid", "noKey", "null"} }
    \cup { Http(200, "list", p) : p \in MachinePayloads }
    \cup { Http(404, "invalid", << >>) }
    \cup { Http(503, "list", << LongRow >>) }

\* the shape of a response: everything but the rows, which are counted
Shape(resp) ==
    [raised |-> resp.raised, status |-> resp.status, json |-> resp.json,
     n |-> Len(resp.states)]

NoResponse == [raised |-> FALSE, status |-> 0, json |-> "invalid", n |-> 0]

\* datetime.now().strftime('%H:%M:%S')
Clock == { "12:00:00", "12:01:00" }

TzOffsets == { -18000, 0 }

\* the rows given to the normalizer alone
PureRows ==
    { Row("a", timePos, onGround, len) :
        timePos \in { JNull, JInf, JNum(1690000000), JStr(<< "a", "b", "c" >>) },
        onGround \in { JNull, JBool(TRUE), JBool(FALSE) },
        len \in RowLengths }

PurePayloads == SeqsUpTo(PureRows, MaxPayloadRows) \ { << >> }

\* epoch seconds around the ends of months, leap days and years, 1970..2037
EpochDays ==
    { 0, 58, 59, 364, 365, 789, 790, 11015, 11016, 11017, 11322, 19560, 19782,
      20088, 24836 }

EpochSamples ==
    { d * 86400 + sec : d \in EpochDays, sec \in { 0, 45296, 86399 } }
    \cup { 1690000000, 1690000005 }

TimestampValues ==
    { JNull, JNaN, JInf, NoData, JStr(<< >>), JStr(<< "a", "b", "c" >>),
      JStr(<< "1", "2" >>), JBool(TRUE), JBool(FALSE) }
    \cup { JNum(n) : n \in EpochSamples }

NormalizeArg(p) == [f |-> "normalize", rows |-> p, cell |-> JNull]
TimestampArg(x) == [f |-> "formatTimestamp", rows |-> << >>, cell |-> x]

PureInputs ==
    { NormalizeArg(p) : p \in PurePayloads } \cup { TimestampArg(x) : x \in TimestampValues }

-----------------------------------------------------------------------------
(* Labels, table model and file *)

FlightsText(n) == "Flights: " \o ToString(n)
UpdatedText(now) == "Updated: " \o now

\* FlightDataModel.rowCount / columnCount; a view without a model shows no rows
rowCount(data) == Len(data.rows)
columnCount(data) == Len(data.columns)

NoFile == [exists |-> FALSE, header |-> << >>, rows |-> << >>]
TruncatedFile == [exists |-> TRUE, header |-> << >>, rows |-> << >>]

\* flightDf.to_csv('FlightScope.csv', index=False): the header line and one line
\* per row, replacing the file
ToCsv(frame) == [exists |-> TRUE, header |-> frame.columns, rows |-> frame.rows]

-----------------------------------------------------------------------------
(* fetchFlightData after requests.get has returned or raised *)

\* line 220 with the comparison left out
StatusOkAnyStatus(resp) == TRUE

\* line 220
StatusOk(resp) == resp.status = 200

\* line 221: response.json() raises on a body that is not JSON
JsonRaises(resp) == resp.json = "invalid"

\* line 224 without the membership test: "raise" is the KeyError
HasStatesNoKeyTest(resp) ==
    IF resp.json = "noKey" THEN "raise"
    ELSE IF resp.json = "list" /\ Len(resp.states) > 0 THEN "true" ELSE "false"

\* line 224: 'states' in data and data['states']
HasStates(resp) ==
    IF resp.json = "list" /\ Len(resp.states) > 0 THEN "true" ELSE "false"

\* lines 273-277
ExceptBranch(where, table, files) ==
    [count |-> "Error", update |-> "Connection error", table |-> table,
     files |-> files, err |-> where]

\* lines 234-252 on the rows of the response, where line 224 lets them be reached
Parsed(resp, offset) ==
    IF HasStates(resp) = "true" THEN Normalize(resp.states, offset)
    ELSE [raised |-> FALSE, frame |-> NoFrame]

\* lines 215-277: the labels, the model and the possible files the cycle leaves;
\* nz is Parsed(resp, tz), writable whether FlightScope.csv can be written
Cycle(resp, nz, writable, now, table, file) ==
    IF resp.raised THEN ExceptBranch("transport", table, {file})
    ELSE IF StatusOk(resp)
    THEN IF JsonRaises(resp) THEN ExceptBranch("json", table, {file})
         ELSE IF HasStates(resp) = "raise" THEN ExceptBranch("states", table, {file})
         ELSE IF HasStates(resp) = "true"
         THEN IF nz.raised THEN ExceptBranch("normalize", table, {file})
              ELSE IF ~writable
              THEN ExceptBranch("csv", table, {file, TruncatedFile})
              ELSE [count |-> FlightsText(Len(nz.frame.rows)),
                    update |-> UpdatedText(now),
                    table |-> nz.frame,
                    files |-> {ToCsv(nz.frame)},
                    err |-> "none"]
         ELSE [count |-> "Flights: 0", update |-> UpdatedText(now),
               table |-> table, files |-> {file}, err |-> "none"]
    ELSE [count |-> "Flights: --", update |-> "Update failed",
          table |-> table, files |-> {file}, err |-> "none"]

\* the snapshot a response carries: its normalized rows, no rows when it has none
EmptySnapshot == [columns |-> columns, rows |-> << >>]

Snapshot(resp, nz) ==
    IF resp.raised \/ resp.status # 200 \/ resp.json = "invalid" \/ nz.raised THEN NoFrame
    ELSE IF resp.json = "list" /\ Len(resp.states) > 0 THEN nz.frame
    ELSE EmptySnapshot

\* an except branch that stops the timer
TimerStoppedOnError(err) == IF err = "none" THEN timerActive ELSE FALSE

\* fetchFlightData never touches self.timer
TimerAfterCycle(err) == timerActive

-----------------------------------------------------------------------------
(* The Qt event loop *)

pc == IF active > 0 THEN "Fetching" ELSE "Idle"

\* a loop that dispatches while a slot is still running
EventLoopReentered == active < 2

\* a slot that has not returned keeps the loop from dispatching: requests.get
\* blocks the only thread
EventLoopCanDispatch == active = 0

harnessIdle == arg = [f |-> "none", rows |-> << >>, cell |-> JNull]
NotApplied == [applied |-> FALSE, raised |-> FALSE, frame |-> NoFrame, value |-> JNull]

\* __init__ has built the widgets, started the timer and called fetchFlightData
Init ==
    /\ active = 1
    /\ timerActive = TRUE
    /\ timeoutPending = FALSE
    /\ clicksPending = 0
    /\ countLabel = "Flights: 0"
    /\ updateLabel = "Last Updated: Never"
    /\ tableModel = NoFrame
    /\ csvFile = NoFile
    /\ lastResp = NoResponse
    /\ lastFrame = NoFrame
    /\ lastErr = "none"
    /\ tz \in TzOffsets
    /\ harnessIdle
    /\ res = NotApplied

\* REFRESH_TIME has elapsed
TimerTimeout ==
    /\ timerActive
    /\ ~timeoutPending
    /\ timeoutPending' = TRUE
    /\ UNCHANGED << active, timerActive, clicksPending, countLabel, updateLabel,
                    tableModel, csvFile, lastResp, lastFrame, lastErr, tz, arg, res >>

\* the user clicks "Refresh Data"
ButtonClick ==
    /\ clicksPending < MaxPendingClicks
    /\ clicksPending' = clicksPending + 1
    /\ UNCHANGED << active, timerActive, timeoutPending, countLabel, updateLabel,
                    tableModel, csvFile, lastResp, lastFrame, lastErr, tz, arg, res >>

\* timer.timeout -> fetchFlightData, up to the blocking requests.get
DispatchTimeout ==
    /\ EventLoopCanDispatch
    /\ timeoutPending
    /\ timeoutPending' = FALSE
    /\ active' = active + 1
    /\ UNCHANGED << timerActive, clicksPending, countLabel, updateLabel,
                    tableModel, csvFile, lastResp, lastFrame, lastErr, tz, arg, res >>

\* refreshButton.clicked -> fetchFlightData, up to the blocking requests.get
DispatchClick ==
    /\ EventLoopCanDispatch
    /\ clicksPending > 0
    /\ clicksPending' = clicksPending - 1
    /\ active' = active + 1
    /\ UNCHANGED << timerActive, timeoutPending, countLabel, updateLabel,
                    tableModel, csvFile, lastResp, lastFrame, lastErr, tz, arg, res >>

\* what one call can leave behind for a response: once per outcome of the file
\* write and per reading of the clock
CycleOutcomes(resp, table, file, offset) ==
    LET nz == Parsed(resp, offset)
    IN  { [c |-> Cycle(resp, nz, writable, now, table, file),
           snapshot |-> Snapshot(resp, nz)] : writable \in BOOLEAN, now \in Clock }

\* requests.get returns or raises and fetchFlightData runs to its end
FetchReturn ==
    /\ active > 0
    /\ \E resp \in Responses :
          \E o \in CycleOutcomes(resp, tableModel, csvFile, tz) :
             /\ countLabel' = o.c.count
             /\ updateLabel' = o.c.update
             /\ tableModel' = o.c.table
             /\ csvFile' \in o.c.files
             /\ lastErr' = o.c.err
             /\ lastResp' = Shape(resp)
             /\ lastFrame' = o.snapshot
             /\ timerActive' = TimerAfterCycle(o.c.err)
    /\ active' = active - 1
    /\ UNCHANGED << timeoutPending, clicksPending, tz, arg, res >>

Next == TimerTimeout \/ ButtonClick \/ DispatchTimeout \/ DispatchClick \/ FetchReturn

Spec == Init /\ [][Next]_vars

\* the timer keeps firing and the event loop delivers its timeout once idle
LiveSpec == Spec /\ WF_vars(TimerTimeout) /\ WF_vars(DispatchTimeout)

-----------------------------------------------------------------------------
(* The normalizer and formatTimestamp on their own *)

PureInit ==
    /\ active = 1
    /\ timerActive = TRUE
    /\ timeoutPending = FALSE
    /\ clicksPending = 0
    /\ countLabel = "Flights: 0"
    /\ updateLabel = "Last Updated: Never"
    /\ tableModel = NoFrame
    /\ csvFile = NoFile
    /\ lastResp = NoResponse
    /\ lastFrame = NoFrame
    /\ lastErr = "none"
    /\ tz \in TzOffsets
    /\ arg \in PureInputs
    /\ res = NotApplied

\* lines 234-252 on arg.rows
ApplyNormalize ==
    /\ arg.f = "normalize"
    /\ ~res.applied
    /\ res' = LET nz == Normalize(arg.rows, tz)
              IN  [applied |-> TRUE, raised |-> nz.raised, frame |-> nz.frame,
                   value |-> JNull]
    /\ UNCHANGED << machineVars, tz, arg >>

\* formatTimestamp(arg.cell)
ApplyFormatTimestamp ==
    /\ arg.f = "formatTimestamp"
    /\ ~res.applied
    /\ res' = LET r == formatTimestamp(arg.cell, tz)
              IN  [applied |-> TRUE, raised |-> r.raised, frame |-> NoFrame,
                   value |-> r.value]
    /\ UNCHANGED << machineVars, tz, arg >>

PureNext == ApplyNormalize \/ ApplyFormatTimestamp

PureSpec == PureInit /\ [][PureNext]_vars

-----------------------------------------------------------------------------
(* Properties *)

\* a step in which a refresh cycle ends
CycleEnds == active' < active

\* the cycle that ended last got an answer whose status was not 200
LastNon200 == ~lastResp.raised /\ lastResp.status \notin {0, 200}

\* the cycle that ended last got a 200 whose body has no 'states', a null
\* 'states' or an empty list
LastEmpty200 ==
    /\ ~lastResp.raised
    /\ lastResp.status = 200
    /\ \/ lastResp.json \in {"noKey", "null"}
       \/ lastResp.json = "list" /\ lastResp.n = 0

\* the cycle that ended last got a 200 and reported no error
LastSuccessful == ~lastResp.raised /\ lastResp.status = 200 /\ lastErr = "none"

Updated == \E now \in Clock : updateLabel = UpdatedText(now)

\* C1: a refresh cycle whose response status is not 200 sets the labels to
\* "Flights: --" and "Update failed", leaves FlightScope.csv as the previous
\* cycle left it and leaves the table model unchanged.
C1_Non200KeepsFileAndTable ==
    [][ (CycleEnds /\ LastNon200')
          => /\ countLabel' = "Flights: --"
             /\ updateLabel' = "Update failed"
             /\ csvFile' = csvFile
             /\ tableModel' = tableModel ]_vars

\* a 503 that carries state vectors, after a refresh that filled table and file
C1_Witness ==
    /\ lastResp.status = 503
    /\ lastResp.json = "list"
    /\ lastResp.n > 0
    /\ updateLabel = "Update failed"
    /\ rowCount(tableModel) > 0
    /\ csvFile = ToCsv(tableModel)

\* C2: every failure raised inside fetchFlightData ends the cycle with the
\* labels "Connection error" and "Error", and "Connection error" is shown only
\* when the failure was a transport failure of the HTTP call.
C2_ConnectionErrorOnlyForTransport ==
    /\ lastErr # "none" => updateLabel = "Connection error" /\ countLabel = "Error"
    /\ updateLabel = "Connection error" => lastErr = "transport"

\* C3: a 200 whose body has no 'states' key, a null 'states' or an empty list is
\* a normal result: "Flights: 0", "Updated: <time>", no exception.
C3_EmptyResultIsNormal ==
    LastEmpty200 => countLabel = "Flights: 0" /\ Updated /\ lastErr = "none"

\* a body without the 'states' key, received while the table shows rows
C3_Witness ==
    /\ LastEmpty200
    /\ lastResp.json = "noKey"
    /\ countLabel = "Flights: 0"
    /\ Updated
    /\ rowCount(tableModel) > 0

\* C4: whenever the count label shows "Flights: N" the table model has exactly
\* N rows, all of the most recent fetch.
C4_CountLabelMatchesTable ==
    \A n \in 0..MaxRows :
        countLabel = FlightsText(n)
            => rowCount(tableModel) = n /\ tableModel.rows = lastFrame.rows

\* C5: for rows of any lengths normalization does not fail and every record has
\* exactly the 17 schema columns in order: fields past the 17th are dropped and
\* each missing trailing field is the sentinel.
C5_AnyRowLengthNormalizes ==
    (res.applied /\ arg.f = "normalize")
        => /\ ~res.raised
           /\ res.frame.columns = columns
           /\ Len(res.frame.rows) = Len(arg.rows)
           /\ \A i \in 1..Len(res.frame.rows) :
                 /\ Len(res.frame.rows[i]) = NumColumns
                 /\ \A j \in 1..NumColumns :
                       j > Len(arg.rows[i]) => res.frame.rows[i][j] = NoData

\* C6: in every normalized record a field whose source value was null or
\* missing is exactly the sentinel, and no field is null or absent.
C6_NullBecomesSentinel ==
    (res.applied /\ arg.f = "normalize" /\ ~res.raised)
        => \A i \in 1..Len(res.frame.rows) :
              /\ Len(res.frame.rows[i]) = NumColumns
              /\ \A j \in 1..NumColumns :
                    /\ ~IsNa(res.frame.rows[i][j])
                    /\ (j > Len(arg.rows[i]) \/ arg.rows[i][j] = JNull)
                          => res.frame.rows[i][j] = NoData

DigitAt(s, i) == s[i] \in DigitSet
Number2(s, i) == DigitValue(s[i]) * 10 + DigitValue(s[i + 1])

\* text of the form YYYY-MM-DD HH:MM:SS naming a month, a day and a time of day
IsTimestampText(x) ==
    /\ x.t = "str"
    /\ Len(x.s) = 19
    /\ x.s[5] = "-" /\ x.s[8] = "-" /\ x.s[11] = " " /\ x.s[14] = ":" /\ x.s[17] = ":"
    /\ \A i \in {1, 2, 3, 4, 6, 7, 9, 10, 12, 13, 15, 16, 18, 19} : DigitAt(x.s, i)
    /\ Number2(x.s, 6) \in 1..12
    /\ Number2(x.s, 9) \in 1..31
    /\ Number2(x.s, 12) \in 0..23
    /\ Number2(x.s, 15) \in 0..59
    /\ Number2(x.s, 18) \in 0..59

\* neither a number nor text that reads as one
NonNumeric(x) ==
    \/ x.t \in {"null", "nan"}
    \/ x.t = "str" /\ ~IsDigitText(x.s)

\* C7: timestamp conversion is total: a number of epoch seconds becomes text of
\* the form YYYY-MM-DD HH:MM:SS, a null, the sentinel or a non-numeric value
\* becomes the sentinel, and a conversion that fails (an infinite number) is
\* caught inside formatTimestamp and yields the sentinel; the same holds of the
\* TimePos and LastContact fields of a normalized snapshot.
C7_TimestampConversionTotal ==
    /\ (res.applied /\ arg.f = "formatTimestamp")
          => /\ ~res.raised
             /\ res.value = NoData \/ IsTimestampText(res.value)
             /\ arg.cell.t = "num" => IsTimestampText(res.value)
             /\ NonNumeric(arg.cell) => res.value = NoData
             /\ arg.cell = JInf => res.value = NoData
             /\ (arg.cell = JNum(1690000000) /\ tz = 0)
                   => res.value = JStr(<< "2", "0", "2", "3", "-", "0", "7", "-", "2", "2",
                                          " ", "0", "4", ":", "2", "6", ":", "4", "0" >>)
    /\ (res.applied /\ arg.f = "normalize"
          /\ \E i \in 1..Len(arg.rows) : Len(arg.rows[i]) >= NumColumns)
          => /\ ~res.raised
             /\ \A i \in 1..Len(res.frame.rows) : \A j \in TimestampColumns :
                   LET src == IF j <= Len(arg.rows[i]) THEN arg.rows[i][j] ELSE JNull
                       out == res.frame.rows[i][j]
                   IN  /\ src.t = "num" => IsTimestampText(out)
                       /\ (NonNumeric(src) \/ src = JInf) => out = NoData

\* an infinite number of seconds: fromtimestamp raises, the sentinel comes back
C7_Witness ==
    /\ res.applied
    /\ arg.f = "formatTimestamp"
    /\ arg.cell = JInf
    /\ ~res.raised
    /\ res.value = NoData

\* C8: after every successful refresh cycle (an empty result included)
\* FlightScope.csv holds exactly the snapshot of that cycle: the header row and
\* one row per aircraft of that fetch.
C8_FileHoldsLastSnapshot ==
    LastSuccessful => csvFile = ToCsv(lastFrame)

\* the last finished cycle failed
LastFailed == lastErr # "none" \/ LastNon200

\* C9: a timer tick or click taken in Idle starts a cycle, every cycle that ends
\* goes back to Idle whether it succeeded or failed, a failed cycle does not
\* start another by itself and does not stop the timer, and after a failure
\* another fetch is eventually started.
C9_FailureIsFollowedByFetch ==
    /\ [][ ((timeoutPending /\ ~timeoutPending') \/ clicksPending' < clicksPending)
             => pc = "Idle" /\ pc' = "Fetching" ]_vars
    /\ [][ CycleEnds => pc' = "Idle" /\ timerActive' ]_vars
    /\ [][ pc' = "Fetching" /\ pc = "Idle"
             => (timeoutPending /\ ~timeoutPending') \/ clicksPending' < clicksPending ]_vars
    /\ [] timerActive
    /\ (LastFailed /\ pc = "Idle") ~> pc = "Fetching"

\* a fetch in flight after a cycle that ended in the except branch
C9_Witness ==
    /\ lastErr = "transport"
    /\ updateLabel = "Connection error"
    /\ pc = "Fetching"
    /\ timerActive

\* C10: refresh cycles never overlap, an event that arrives while a cycle is
\* Fetching starts no cycle before that one has ended, and the table model and
\* the labels change only in the step that ends a cycle, the model to the whole
\* snapshot of that cycle's fetch.
C10_CyclesDoNotOverlap ==
    /\ [] (active <= 1)
    /\ [][ pc = "Fetching" => active' <= active ]_vars
    /\ [][ (tableModel' # tableModel \/ countLabel' # countLabel
              \/ updateLabel' # updateLabel \/ csvFile' # csvFile)
             => CycleEnds /\ (tableModel' # tableModel => tableModel' = lastFrame') ]_vars

\* a timeout and a click both waiting while a cycle is Fetching
C10_Witness ==
    /\ pc = "Fetching"
    /\ timeoutPending
    /\ clicksPending > 0
    /\ rowCount(tableModel) > 0

=============================================================================
